---------------------------- MODULE Spec2Model ----------------------------
(***************************************************************************)
(* The relationship store of the MCP character service: the Relationship   *)
(* table with its constraints, the three mapper event listeners that keep  *)
(* the mirror row of a mutual relationship, and the RelationshipService    *)
(* calls create_relationship, update_relationship and delete_relationship; *)
(* the characters and personalities tables with the CharacterService calls *)
(* create_character, update_character and delete_character, and the        *)
(* update_character tool in front of the service.                          *)
(*                                                                         *)
(* Every service call runs in its own AsyncSession.  A call reads the      *)
(* store (one step), works on the objects it loaded, and flushes and       *)
(* commits (a second step).  The statements of one flush hold their row    *)
(* and unique-index locks until the commit, so a flush and its commit are  *)
(* one step on the committed table; the reads before it are not.  The      *)
(* listeners are modelled by the SQL statements they carry.                *)
(***************************************************************************)
EXTENDS Integers, FiniteSets, Sequences, TLC

VARIABLES
    characters,   \* the committed rows of the characters table
    personalities,\* the committed rows of the personalities table
    char_uuids,   \* number of uuid4 primary keys issued to characters so far
    rels,         \* the committed rows of the relationships table
    uuids,        \* number of uuid4 primary keys issued to relationships so far
    now,          \* the clock: number of commits attempted so far
    pc,           \* per caller: where its call stands
    call,         \* per caller: the call in flight (or the last one)
    result        \* per caller: the outcome of its last finished call

vars == <<characters, personalities, char_uuids, rels, uuids, now, pc, call, result>>

----------------------------------------------------------------------------
(* Bounds and input domains *)

\* Callers start calls while fewer than MaxTime commits were attempted; a caller
\* that is alone (no other caller has made a call) goes on up to MaxSoloTime.
MaxTime == 2

MaxSoloTime == 3

\* The largest max_depth callers pass to get_relationship_network.
MaxDepth == 3

Procs == {"p1", "p2"}

\* Optional values: None, or a one-element sequence holding the value.
None == <<>>

Some(x) == <<x>>

\* The primary keys uuid4 issues to characters, in the order of issue.
CharIds == <<"c1", "c2", "c3">>

\* The characters the store holds at the start: each created with the column
\* default of version.
InitialCharacters ==
    {[id |-> CharIds[i], name |-> "Elena", age |-> None, version |-> 1,
      personality_traits |-> None] : i \in 1..2}

CharacterIds(table) == {c.id : c \in table}

RelationshipType ==
    {"family", "romantic", "friendship", "professional", "adversarial", "mentor"}

RelationshipStatus == {"active", "inactive", "complicated", "developing"}

\* The (character_a_id, character_b_id) pairs callers pass: an ordered pair of
\* existing characters, its reverse, a character with itself, and a pair whose
\* second id names no character.
CreatePairs == {<<"c1", "c2">>, <<"c2", "c1">>, <<"c1", "c1">>, <<"c1", "c3">>}

\* The relationship_data mappings callers pass to create_relationship.
CreateInputs ==
    {[character_a_id |-> ab[1], character_b_id |-> ab[2],
      relationship_type |-> t, strength |-> Some(5), status |-> "active",
      history |-> None, metadata |-> None, is_mutual |-> m] :
        ab \in CreatePairs, t \in {"mentor"}, m \in BOOLEAN}

\* The updates mappings callers pass to update_relationship.
ContentUpdates ==
    { [strength |-> Some(7)],
      [status |-> "inactive"],
      [history |-> Some("h"), metadata |-> Some("m")] }

OtherUpdates ==
    { [is_mutual |-> FALSE],
      [is_mutual |-> TRUE],
      [relationship_type |-> "friendship"],
      [id |-> 0, character_a_id |-> "c3", character_b_id |-> "c3", created_at |-> 0,
       nickname |-> Some("x")],
      [strength |-> Some(11)],
      [strength |-> Some(7), is_mutual |-> FALSE] }

UpdateInputs == ContentUpdates \cup OtherUpdates

\* The updates mappings of the runs that mix the operations: a content update, a
\* change of type and a strength the validator refuses.
MutateUpdates ==
    { [status |-> "inactive"],
      [relationship_type |-> "friendship"],
      [strength |-> Some(11)] }

NoCall == [op |-> "none"]

----------------------------------------------------------------------------
(* Relationship model: validators and table constraints *)

validate_relationship_type(rel_type) == rel_type \in RelationshipType

validate_status(status) == status \in RelationshipStatus

validate_strength(strength) ==
    strength = None \/ ~(strength[1] < 1 \/ strength[1] > 10)

\* validate_different_characters, run by the constructor on both id keys.
validate_different_characters(a, b) == a # b

\* The constraints the table enforces on a row that is written to it.
ConstraintsHold(table, row) ==
    /\ row.character_a_id # row.character_b_id
    /\ row.strength = None \/ (row.strength[1] >= 1 /\ row.strength[1] <= 10)
    /\ ~\E r \in table :
          /\ r.id # row.id
          /\ r.character_a_id = row.character_a_id
          /\ r.character_b_id = row.character_b_id
          /\ r.relationship_type = row.relationship_type
    /\ row.character_a_id \in CharacterIds(characters)
    /\ row.character_b_id \in CharacterIds(characters)

----------------------------------------------------------------------------
(* The event listeners *)

ReverseOf(table, target) ==
    {r \in table : /\ r.character_a_id = target.character_b_id
                   /\ r.character_b_id = target.character_a_id
                   /\ r.relationship_type = target.relationship_type}

\* after_insert: the table after the listener ran for the inserted target.
create_bidirectional_relationship(table, target, new_id) ==
    IF target.is_mutual /\ ReverseOf(table, target) = {}
    THEN table \cup
           {[id |-> new_id,
             character_a_id |-> target.character_b_id,
             character_b_id |-> target.character_a_id,
             relationship_type |-> target.relationship_type,
             strength |-> target.strength,
             status |-> target.status,
             history |-> target.history,
             metadata |-> target.metadata,
             is_mutual |-> TRUE,
             created_at |-> target.created_at,
             updated_at |-> target.updated_at]}
    ELSE table

\* after_update that writes the reverse row when there is none.
update_bidirectional_relationship_creating_mirror(table, target) ==
    IF target.is_mutual
    THEN IF ReverseOf(table, target) = {}
         THEN table \cup {[target EXCEPT !.id = uuids + 1,
                                         !.character_a_id = target.character_b_id,
                                         !.character_b_id = target.character_a_id]}
         ELSE {IF r \in ReverseOf(table, target)
               THEN [r EXCEPT !.strength = target.strength,
                              !.status = target.status,
                              !.history = target.history,
                              !.metadata = target.metadata,
                              !.updated_at = target.updated_at]
               ELSE r : r \in table}
    ELSE table

\* after_update: the reverse row takes the content of the in-memory target.
update_bidirectional_relationship(table, target) ==
    IF target.is_mutual
    THEN {IF r \in ReverseOf(table, target)
          THEN [r EXCEPT !.strength = target.strength,
                         !.status = target.status,
                         !.history = target.history,
                         !.metadata = target.metadata,
                         !.updated_at = target.updated_at]
          ELSE r : r \in table}
    ELSE table

\* after_delete looking for the reverse row with the endpoints not swapped.
delete_bidirectional_relationship_unswapped(table, target) ==
    IF target.is_mutual
    THEN table \ {r \in table : /\ r.character_a_id = target.character_a_id
                                /\ r.character_b_id = target.character_b_id
                                /\ r.relationship_type = target.relationship_type}
    ELSE table

\* after_delete: the reverse row goes with a target whose is_mutual was true.
delete_bidirectional_relationship(table, target) ==
    IF target.is_mutual
    THEN table \ ReverseOf(table, target)
    ELSE table

----------------------------------------------------------------------------
(* RelationshipService: the queries *)

\* The existence check made on the first id only.
_verify_first_character_exists(character_ids) ==
    \E c \in characters : c.id = character_ids[1]

_verify_characters_exist(character_ids) ==
    Cardinality({c \in characters : \E i \in DOMAIN character_ids : character_ids[i] = c.id})
        = Len(character_ids)

MatchingBetween(table, a, b, relationship_type) ==
    {r \in table :
        /\ \/ (r.character_a_id = a /\ r.character_b_id = b)
           \/ (r.character_a_id = b /\ r.character_b_id = a)
        /\ relationship_type = None \/ r.relationship_type = relationship_type[1]}

\* scalar_one_or_none: the row when one matches, None when none does; more than
\* one raises MultipleResultsFound, which the except clause turns into None.
get_relationship_between_characters(table, a, b, relationship_type) ==
    LET found == MatchingBetween(table, a, b, relationship_type)
    IN  IF Cardinality(found) = 1 THEN Some(CHOOSE r \in found : TRUE) ELSE None

\* get_relationship_by_id falling back to some stored row when the id names none.
get_relationship_by_id_or_any(table, relationship_id) ==
    LET found == {r \in table : r.id = relationship_id}
    IN  IF found # {} THEN Some(CHOOSE r \in found : TRUE)
        ELSE IF table # {} THEN Some(CHOOSE r \in table : TRUE)
        ELSE None

get_relationship_by_id(table, relationship_id) ==
    LET found == {r \in table : r.id = relationship_id}
    IN  IF found = {} THEN None ELSE Some(CHOOSE r \in found : TRUE)

----------------------------------------------------------------------------
(* A caller may start a call when it has none in flight. *)

Ready(p) ==
    /\ pc[p] = "ready"
    /\ now < (IF \A q \in Procs \ {p} : call[q] = NoCall THEN MaxSoloTime ELSE MaxTime)

Init ==
    /\ characters = InitialCharacters
    /\ personalities = {}
    /\ char_uuids = 2
    /\ rels = {}
    /\ uuids = 0
    /\ now = 0
    /\ pc = [p \in Procs |-> "ready"]
    /\ call = [p \in Procs |-> NoCall]
    /\ result = [p \in Procs |-> "none"]

----------------------------------------------------------------------------
(* create_relationship *)

\* create_check with the existence check made per distinct id and without the
\* constructor's validators.
create_check_without_self_guard(table, data) ==
    IF ~({data.character_a_id, data.character_b_id} \subseteq CharacterIds(characters))
    THEN "characters_do_not_exist"
    ELSE IF get_relationship_between_characters(
                table, data.character_a_id, data.character_b_id,
                Some(data.relationship_type)) # None
    THEN "already_exists"
    ELSE "proceed"

\* The checks before the insert: "proceed", or the failure that is raised.
create_check(table, data) ==
    IF ~_verify_characters_exist(<<data.character_a_id, data.character_b_id>>)
    THEN "characters_do_not_exist"
    ELSE IF get_relationship_between_characters(
                table, data.character_a_id, data.character_b_id,
                Some(data.relationship_type)) # None
    THEN "already_exists"
    ELSE IF ~(/\ validate_different_characters(data.character_a_id, data.character_b_id)
              /\ validate_relationship_type(data.relationship_type)
              /\ validate_status(data.status)
              /\ validate_strength(data.strength))
    THEN "failed_to_create"
    ELSE "proceed"

\* Relationship(**relationship_data) as the flush inserts it.
NewRelationship(data, new_id, time) ==
    [id |-> new_id,
     character_a_id |-> data.character_a_id,
     character_b_id |-> data.character_b_id,
     relationship_type |-> data.relationship_type,
     strength |-> data.strength,
     status |-> data.status,
     history |-> data.history,
     metadata |-> data.metadata,
     is_mutual |-> data.is_mutual,
     created_at |-> time,
     updated_at |-> time]

CreateRead(p, data) ==
    /\ Ready(p)
    /\ LET outcome == create_check(rels, data)
       IN  IF outcome = "proceed"
           THEN /\ pc' = [pc EXCEPT ![p] = "create_commit"]
                /\ result' = [result EXCEPT ![p] = "none"]
                /\ call' = [call EXCEPT ![p] =
                              [op |-> "create", arg |-> data, t0 |-> Some(now), t1 |-> None]]
           ELSE /\ result' = [result EXCEPT ![p] = outcome]
                /\ call' = [call EXCEPT ![p] =
                              [op |-> "create", arg |-> data, t0 |-> None, t1 |-> None]]
                /\ UNCHANGED pc
    /\ UNCHANGED <<characters, personalities, char_uuids, rels, uuids, now>>

\* flush and commit; the finished call is kept, with the time of its commit.
CreateCommit(p) ==
    /\ pc[p] = "create_commit"
    /\ LET target == NewRelationship(call[p].arg, uuids + 1, now)
       IN  IF ConstraintsHold(rels, target)
           THEN /\ rels' = create_bidirectional_relationship(rels \cup {target}, target, uuids + 2)
                /\ uuids' = uuids + (Cardinality(rels') - Cardinality(rels))
                /\ result' = [result EXCEPT ![p] = "ok"]
           ELSE /\ UNCHANGED <<rels, uuids>>
                /\ result' = [result EXCEPT ![p] = "failed_to_create"]
    /\ call' = [call EXCEPT ![p].t1 = Some(now)]
    /\ now' = now + 1
    /\ pc' = [pc EXCEPT ![p] = "ready"]
    /\ UNCHANGED <<characters, personalities, char_uuids>>

----------------------------------------------------------------------------
(* update_relationship *)

ProtectedKeys == {"id", "character_a_id", "character_b_id"}

\* The setattr loop and the updated_at stamp, on the loaded object.
apply_updates(relationship, updates, time) ==
    [k \in DOMAIN relationship |->
        IF k = "updated_at" THEN time
        ELSE IF k \in DOMAIN updates /\ k \notin ProtectedKeys THEN updates[k]
        ELSE relationship[k]]

\* The validators setattr runs; a ValueError fails the call.
updates_valid(updates) ==
    /\ "relationship_type" \in DOMAIN updates => validate_relationship_type(updates.relationship_type)
    /\ "status" \in DOMAIN updates => validate_status(updates.status)
    /\ "strength" \in DOMAIN updates => validate_strength(updates.strength)

\* The UPDATE the flush emits: the columns whose value changed on the object.
FlushedRow(stored, loaded, target) ==
    [k \in DOMAIN stored |-> IF target[k] # loaded[k] THEN target[k] ELSE stored[k]]

UpdateRead(p, relationship_id, updates) ==
    /\ Ready(p)
    /\ LET found == get_relationship_by_id(rels, relationship_id)
       IN  IF found # None /\ updates_valid(updates)
           THEN /\ pc' = [pc EXCEPT ![p] = "update_commit"]
                /\ result' = [result EXCEPT ![p] = "none"]
                /\ call' = [call EXCEPT ![p] =
                              [op |-> "update", arg |-> updates, row |-> found[1], t0 |-> now]]
           ELSE /\ result' = [result EXCEPT ![p] =
                                IF found = None THEN "not_found" ELSE "failed_to_update"]
                /\ call' = [call EXCEPT ![p] = [op |-> "update"]]
                /\ UNCHANGED pc
    /\ UNCHANGED <<characters, personalities, char_uuids, rels, uuids, now>>

UpdateCommit(p) ==
    /\ pc[p] = "update_commit"
    /\ LET loaded == call[p].row
           target == apply_updates(loaded, call[p].arg, call[p].t0)
           stored == get_relationship_by_id(rels, loaded.id)
       IN  IF stored # None /\ ConstraintsHold(rels, FlushedRow(stored[1], loaded, target))
           THEN /\ rels' = update_bidirectional_relationship(
                              (rels \ {stored[1]}) \cup {FlushedRow(stored[1], loaded, target)},
                              target)
                /\ result' = [result EXCEPT ![p] = "ok"]
           ELSE /\ UNCHANGED rels
                /\ result' = [result EXCEPT ![p] = "failed_to_update"]
    /\ call' = [call EXCEPT ![p] = [op |-> "update"]]
    /\ now' = now + 1
    /\ pc' = [pc EXCEPT ![p] = "ready"]
    /\ UNCHANGED <<characters, personalities, char_uuids, uuids>>

----------------------------------------------------------------------------
(* delete_relationship *)

DeleteRead(p, relationship_id) ==
    /\ Ready(p)
    /\ LET found == get_relationship_by_id(rels, relationship_id)
       IN  IF found # None
           THEN /\ pc' = [pc EXCEPT ![p] = "delete_commit"]
                /\ result' = [result EXCEPT ![p] = "none"]
                /\ call' = [call EXCEPT ![p] =
                              [op |-> "delete", id |-> relationship_id, row |-> found[1]]]
           ELSE /\ result' = [result EXCEPT ![p] = "false"]
                /\ call' = [call EXCEPT ![p] = [op |-> "delete", id |-> relationship_id]]
                /\ UNCHANGED pc
    /\ UNCHANGED <<characters, personalities, char_uuids, rels, uuids, now>>

\* The DELETE of a row that is gone matches nothing and only warns.
DeleteCommit(p) ==
    /\ pc[p] = "delete_commit"
    /\ rels' = delete_bidirectional_relationship(
                   {r \in rels : r.id # call[p].row.id}, call[p].row)
    /\ result' = [result EXCEPT ![p] = "true"]
    /\ call' = [call EXCEPT ![p] = [op |-> "delete", id |-> call[p].id]]
    /\ now' = now + 1
    /\ pc' = [pc EXCEPT ![p] = "ready"]
    /\ UNCHANGED <<characters, personalities, char_uuids, uuids>>

----------------------------------------------------------------------------
(* Character model: validators *)

\* str.strip on the names callers pass.
strip(name) ==
    CASE name = " Mara " -> "Mara"
      [] name = " " -> ""
      [] OTHER -> name

\* The validators return normally (TRUE) or raise ValueError (FALSE).
validate_name(name) == ~(name = "" \/ strip(name) = "")

validate_age(age) == age = None \/ ~(age[1] < 0 \/ age[1] > 200)

\* traits.get('dominant_traits', [])
dominant_traits_of(traits) ==
    IF "dominant_traits" \in DOMAIN traits THEN traits.dominant_traits ELSE <<>>

\* PersonalityTraits(**traits): no trait is named twice.
validate_personality_traits(traits) ==
    traits = None
    \/ LET d == dominant_traits_of(traits[1])
       IN  \A i, j \in DOMAIN d : d[i] = d[j] => i = j

----------------------------------------------------------------------------
(* Inputs of the character operations *)

Brave == [dominant_traits |-> <<"brave">>]

\* The character_data mappings callers pass to create_character, with the fields
\* of CreateCharacterInput.
CreateCharacterInputs ==
    { [name |-> "Zed", age |-> None, personality_traits |-> None],
      [name |-> "Zed", age |-> Some(40), personality_traits |-> Some(Brave)],
      [name |-> " ", age |-> None, personality_traits |-> None] }

\* Updates mappings with allow-listed keys and valid values.
ValidCharacterUpdates ==
    { [name |-> " Mara "],
      [age |-> Some(30), personality_traits |-> Some(Brave)] }

\* Other updates mappings: a version key, invalid values, a key that names no
\* attribute, a key that names a lazily loaded collection, and the empty mapping.
OtherCharacterUpdates ==
    { [version |-> 7],
      [name |-> " "],
      [age |-> Some(201)],
      [invalid_field |-> 1],
      [relationships_as_a |-> <<>>],
      <<>> }

CharacterUpdates == ValidCharacterUpdates \cup OtherCharacterUpdates

\* Updates mappings that carry personality_traits: two lists of dominant traits
\* and a mapping without the dominant_traits key.
Calm == [dominant_traits |-> <<"calm">>]

UpsertUpdates ==
    { [personality_traits |-> Some(Brave)],
      [personality_traits |-> Some(Calm)],
      [personality_traits |-> Some(<<>>)] }

\* The updates mappings of the runs that mix the operations: one that carries
\* personality traits and one that a validator refuses.
MutateCharacterUpdates ==
    { [age |-> Some(30), personality_traits |-> Some(Brave)],
      [name |-> " "] }

\* The character ids callers pass: every key that can be issued.
KnownCharacterIds == {CharIds[i] : i \in DOMAIN CharIds}

----------------------------------------------------------------------------
(* The tools: the session they ask for *)

\* The kinds of object that have __aenter__ and __aexit__.
AsyncContextManagers == {"asynccontextmanager"}

\* get_database_session wrapped as a context manager.
get_database_session_as_context_manager == "asynccontextmanager"

\* What a call of get_database_session returns: the function is a plain async
\* generator function, its result an async generator object.
get_database_session == "async_generator"

\* `async with get_database_session() as session` enters its body (TRUE) or
\* raises TypeError before it (FALSE).
session_entered == get_database_session \in AsyncContextManagers

----------------------------------------------------------------------------
(* The tools: the except clauses of execute *)

\* The exception classes that are ValueErrors; pydantic's ValidationError is one.
ValueErrors == {"ValueError", "ValidationError"}

\* What the body of an execute, or the service it calls, can raise.
Exceptions ==
    ValueErrors \cup
    {"TypeError", "RelationshipValidationError", "CharacterNotFoundError",
     "CharacterValidationError", "DatabaseError"}

ToolNames == {"create_relationship", "update_character", "get_character_relationships"}

\* The except clauses without the last one of each tool.
except_clauses_without_catch_all(tool) ==
    CASE tool = "create_relationship" ->
            << <<"RelationshipValidationError", "validation_error">>,
               <<"ValueError", "validation_error">> >>
      [] tool = "update_character" ->
            << <<"CharacterNotFoundError", "not_found_error">>,
               <<"CharacterValidationError", "validation_error">> >>
      [] tool = "get_character_relationships" -> << >>

\* The except clauses of execute, in their order: the class caught and the
\* error_type of the result returned.
except_clauses(tool) ==
    CASE tool = "create_relationship" ->
            << <<"RelationshipValidationError", "validation_error">>,
               <<"ValueError", "validation_error">>,
               <<"Exception", "internal_error">> >>
      [] tool = "update_character" ->
            << <<"CharacterNotFoundError", "not_found_error">>,
               <<"CharacterValidationError", "validation_error">>,
               <<"Exception", "internal_error">> >>
      [] tool = "get_character_relationships" ->
            << <<"Exception", "internal_error">> >>

\* isinstance(exception, class)
catches(class, exception) ==
    \/ class = "Exception"
    \/ class = exception
    \/ class = "ValueError" /\ exception \in ValueErrors

\* What execute does with an exception raised in its try block: the result the
\* first matching clause returns, or the exception going on to the caller.
failure_result(tool, exception) ==
    LET clauses == except_clauses(tool)
        hits == {i \in DOMAIN clauses : catches(clauses[i][1], exception)}
    IN  IF hits = {} THEN [escaped |-> exception]
        ELSE LET first == CHOOSE i \in hits : \A j \in hits : i <= j
             IN  IF tool = "get_character_relationships"
                 THEN [relationships |-> <<>>, success |-> FALSE,
                       error |-> exception, error_type |-> clauses[first][2]]
                 ELSE [success |-> FALSE,
                       error |-> exception, error_type |-> clauses[first][2]]

----------------------------------------------------------------------------
(* The update_character tool: UpdateCharacterInput.validate_updates *)

allowed_fields ==
    {"name", "nickname", "age", "gender", "occupation", "backstory",
     "physical_description", "personality_traits", "emotional_state", "narrative_role"}

\* TRUE when the validator returns, FALSE when it raises.
validate_updates(v) ==
    /\ DOMAIN v # {}
    /\ DOMAIN v \ allowed_fields = {}
    /\ "name" \in DOMAIN v => ~(v.name = "" \/ strip(v.name) = "")
    /\ "age" \in DOMAIN v => ~(v.age[1] < 0 \/ v.age[1] > 200)

\* The error_type execute returns for what the service raised.
error_type(outcome) ==
    CASE outcome = "not_found" -> "not_found_error"
      [] outcome = "failed_to_update_character" -> "validation_error"
      [] OTHER -> outcome

----------------------------------------------------------------------------
(* CharacterService *)

get_character_by_id(table, character_id) ==
    LET found == {c \in table : c.id = character_id}
    IN  IF found = {} THEN None ELSE Some(CHOOSE c \in found : TRUE)

\* Character.personality as selectinload brings it.
personality_of(table, character_id) ==
    LET found == {r \in table : r.character_id = character_id}
    IN  IF found = {} THEN None ELSE Some(CHOOSE r \in found : TRUE)

\* Attributes whose first access emits a lazy load, which the async session
\* refuses: hasattr raises.
LazyAttributes == {"relationships_as_a", "relationships_as_b"}

\* The relationship rows left when the setattr loop replaced a relationships
\* collection of the character: the rows taken out of the collection are orphans,
\* the flush deletes them and the after_delete listener runs for each.
replaced_collections(table, character_id, updates) ==
    LET orphans ==
            {r \in table :
                \/ "relationships_as_a" \in DOMAIN updates /\ r.character_a_id = character_id
                \/ "relationships_as_b" \in DOMAIN updates /\ r.character_b_id = character_id}
    IN  table \ (orphans \cup UNION {ReverseOf(table, r) : r \in {o \in orphans : o.is_mutual}})

\* The setattr loop with the lazily loaded collections at hand.
character_updates_valid_with_collections_loaded(updates) ==
    /\ "name" \in DOMAIN updates => validate_name(updates.name)
    /\ "age" \in DOMAIN updates => validate_age(updates.age)
    /\ "personality_traits" \in DOMAIN updates
          => validate_personality_traits(updates.personality_traits)

\* The setattr loop runs to its end: no lazy load, no ValueError from a validator.
character_updates_valid(updates) ==
    /\ DOMAIN updates \cap LazyAttributes = {}
    /\ "name" \in DOMAIN updates => validate_name(updates.name)
    /\ "age" \in DOMAIN updates => validate_age(updates.age)
    /\ "personality_traits" \in DOMAIN updates
          => validate_personality_traits(updates.personality_traits)

\* The setattr loop alone: the version is incremented only when no version key
\* was passed.
apply_character_updates_keeping_version_key(character, updates) ==
    [k \in DOMAIN character |->
        IF k \in DOMAIN updates
        THEN (IF k = "name" THEN strip(updates[k]) ELSE updates[k])
        ELSE IF k = "version" THEN character.version + 1
        ELSE character[k]]

\* The loaded object after the setattr loop and the version increment.
apply_character_updates(character, updates) ==
    LET current_version == character.version
    IN  [k \in DOMAIN character |->
            IF k = "version" THEN current_version + 1
            ELSE IF k \in DOMAIN updates
                 THEN (IF k = "name" THEN strip(updates[k]) ELSE updates[k])
                 ELSE character[k]]

\* A failure path that commits what was flushed before the failing statement.
commit_what_was_flushed(committed, flushed) == flushed

\* session.rollback(): what the transaction flushed is undone.
rollback(committed, flushed) == committed

----------------------------------------------------------------------------
(* create_character *)

\* Character(**character_data) as the flush inserts it.
NewCharacter(data, new_id) ==
    [id |-> new_id, name |-> strip(data.name), age |-> data.age, version |-> 1,
     personality_traits |-> data.personality_traits]

\* One transaction: the character row and, when traits were given, its
\* personality row.  A blank name raises ValueError in the constructor, which the
\* except clause turns into a CharacterValidationError.
CreateCharacter(p, data) ==
    /\ Ready(p)
    /\ char_uuids < Len(CharIds)
    /\ IF validate_name(data.name)
       THEN LET character == NewCharacter(data, CharIds[char_uuids + 1])
            IN  /\ characters' = characters \cup {character}
                /\ personalities' =
                      IF data.personality_traits # None
                      THEN personalities \cup
                             {[character_id |-> character.id,
                               dominant_traits |-> dominant_traits_of(data.personality_traits[1])]}
                      ELSE personalities
                /\ char_uuids' = char_uuids + 1
                /\ now' = now + 1
                /\ result' = [result EXCEPT ![p] = "ok"]
       ELSE /\ UNCHANGED <<characters, personalities, char_uuids, now>>
            /\ result' = [result EXCEPT ![p] = "failed_to_create_character"]
    /\ call' = [call EXCEPT ![p] = [op |-> "create_character"]]
    /\ UNCHANGED <<rels, uuids, pc>>

----------------------------------------------------------------------------
(* update_character: the service call, or the tool in front of it *)

UpdateCharacterRead(p, character_id, updates, tool) ==
    /\ Ready(p)
    /\ LET found == get_character_by_id(characters, character_id)
           outcome == IF tool /\ ~validate_updates(updates) THEN "internal_error"
                      ELSE IF tool /\ ~session_entered THEN "internal_error"
                      ELSE IF found = None THEN "not_found"
                      ELSE IF ~character_updates_valid(updates)
                      THEN "failed_to_update_character"
                      ELSE "proceed"
           raised == IF tool /\ ~validate_updates(updates) THEN "ValidationError"
                     ELSE IF tool /\ ~session_entered THEN "TypeError"
                     ELSE IF found = None THEN "CharacterNotFoundError"
                     ELSE "CharacterValidationError"
       IN  IF outcome = "proceed"
           THEN /\ pc' = [pc EXCEPT ![p] = "update_character_commit"]
                /\ result' = [result EXCEPT ![p] = "none"]
                /\ call' = [call EXCEPT ![p] =
                              [op |-> "update_character", id |-> character_id,
                               arg |-> updates, tool |-> tool, row |-> found[1],
                               personality |-> personality_of(personalities, character_id)]]
           ELSE /\ result' = [result EXCEPT ![p] =
                                IF tool THEN error_type(outcome) ELSE outcome]
                /\ call' = [call EXCEPT ![p] =
                              IF tool
                              THEN [op |-> "update_character", id |-> character_id,
                                    arg |-> updates, tool |-> tool,
                                    response |-> failure_result("update_character", raised)]
                              ELSE [op |-> "update_character", id |-> character_id,
                                    arg |-> updates, tool |-> tool]]
                /\ UNCHANGED pc
    /\ UNCHANGED <<characters, personalities, char_uuids, rels, uuids, now>>

\* The flush: UPDATE characters (the changed columns, by primary key), then the
\* UPDATE of the loaded personality row (again the columns whose value changed on
\* the loaded object) or the INSERT of a new one.
UpdateCharacterCommit(p) ==
    /\ pc[p] = "update_character_commit"
    /\ LET loaded == call[p].row
           updates == call[p].arg
           target == apply_character_updates(loaded, updates)
           stored == get_character_by_id(characters, loaded.id)
           character_ok == stored # None
           flushed_characters ==
               IF character_ok
               THEN (characters \ {stored[1]}) \cup {FlushedRow(stored[1], loaded, target)}
               ELSE characters
           with_traits == "personality_traits" \in DOMAIN updates
           dominant_traits == IF with_traits
                              THEN dominant_traits_of(updates.personality_traits[1])
                              ELSE <<>>
           personality_row == [character_id |-> loaded.id, dominant_traits |-> dominant_traits]
           personality_ok ==
               ~with_traits
               \/ IF call[p].personality # None
                  THEN personality_of(personalities, loaded.id) # None
                  ELSE /\ personality_of(personalities, loaded.id) = None
                       /\ loaded.id \in CharacterIds(flushed_characters)
           flushed_personalities ==
               IF ~with_traits THEN personalities
               ELSE IF call[p].personality # None
               THEN LET stored_personality == personality_of(personalities, loaded.id)[1]
                    IN  (personalities \ {stored_personality})
                           \cup {FlushedRow(stored_personality, call[p].personality[1],
                                            personality_row)}
               ELSE personalities \cup {personality_row}
           outcome == IF character_ok /\ personality_ok THEN "ok"
                      ELSE "failed_to_update_character"
       IN  /\ characters' = IF outcome = "ok" THEN flushed_characters
                            ELSE rollback(characters, flushed_characters)
           /\ personalities' = IF outcome = "ok" THEN flushed_personalities
                               ELSE rollback(personalities, personalities)
           /\ rels' = IF outcome = "ok" THEN replaced_collections(rels, loaded.id, updates)
                      ELSE rollback(rels, replaced_collections(rels, loaded.id, updates))
           /\ result' = [result EXCEPT ![p] =
                           IF call[p].tool THEN error_type(outcome) ELSE outcome]
    /\ call' = [call EXCEPT ![p] =
                  [op |-> "update_character", id |-> call[p].id, arg |-> call[p].arg,
                   tool |-> call[p].tool, row |-> call[p].row]]
    /\ now' = now + 1
    /\ pc' = [pc EXCEPT ![p] = "ready"]
    /\ UNCHANGED <<char_uuids, uuids>>

----------------------------------------------------------------------------
(* delete_character *)

DeleteCharacterRead(p, character_id) ==
    /\ Ready(p)
    /\ IF get_character_by_id(characters, character_id) # None
       THEN /\ pc' = [pc EXCEPT ![p] = "delete_character_commit"]
            /\ result' = [result EXCEPT ![p] = "none"]
       ELSE /\ result' = [result EXCEPT ![p] = "false"]
            /\ UNCHANGED pc
    /\ call' = [call EXCEPT ![p] = [op |-> "delete_character", id |-> character_id]]
    /\ UNCHANGED <<characters, personalities, char_uuids, rels, uuids, now>>

\* cascaded (kept with the finished call): how many personality rows and how
\* many relationship rows went with the character.
\* The rows that go with a character: its personality and every relationship it
\* is an endpoint of (the ORM cascades and ON DELETE CASCADE of the foreign keys).
cascade_personalities(table, character_id) ==
    {r \in table : r.character_id # character_id}

\* The cascade of relationships_as_a alone.
cascade_relationships_as_a_only(table, character_id) ==
    {r \in table : r.character_a_id # character_id}

cascade_relationships(table, character_id) ==
    {r \in table : r.character_a_id # character_id /\ r.character_b_id # character_id}

DeleteCharacterCommit(p) ==
    /\ pc[p] = "delete_character_commit"
    /\ characters' = {c \in characters : c.id # call[p].id}
    /\ personalities' = cascade_personalities(personalities, call[p].id)
    /\ rels' = cascade_relationships(rels, call[p].id)
    /\ result' = [result EXCEPT ![p] = "true"]
    /\ call' = [call EXCEPT ![p] =
                  [op |-> "delete_character", id |-> call[p].id,
                   cascaded |-> <<Cardinality(personalities \ personalities'),
                                  Cardinality(rels \ rels')>>]]
    /\ now' = now + 1
    /\ pc' = [pc EXCEPT ![p] = "ready"]
    /\ UNCHANGED <<char_uuids, uuids>>

----------------------------------------------------------------------------
(* RelationshipService: get_character_relationships *)

\* `if relationship_type:` and `if status:`: a filter is applied when it was
\* given and is not the empty string.
filter_given(value) == value # None /\ value[1] # ""

\* The WHERE clause of the statement.
matching_relationships(table, character_id, relationship_type, status) ==
    {r \in table :
        /\ r.character_a_id = character_id \/ r.character_b_id = character_id
        /\ filter_given(relationship_type) => r.relationship_type = relationship_type[1]
        /\ filter_given(status) => r.status = status[1]}

\* ORDER BY created_at DESC: the listings of the rows in which no row comes
\* before a row with a later created_at.  Rows with equal created_at come in
\* either order.
RECURSIVE order_by_created_at_desc(_)
order_by_created_at_desc(rows) ==
    IF rows = {} THEN {<<>>}
    ELSE UNION {{<<r>> \o rest : rest \in order_by_created_at_desc(rows \ {r})} :
                   r \in {x \in rows : \A y \in rows : x.created_at >= y.created_at}}

\* One SELECT; the listing is kept with the finished call.
GetCharacterRelationships(p, character_id, relationship_type, status) ==
    /\ pc[p] = "ready"
    /\ \E relationships \in order_by_created_at_desc(
              matching_relationships(rels, character_id, relationship_type, status)) :
          call' = [call EXCEPT ![p] =
                      [op |-> "get_character_relationships", id |-> character_id,
                       relationship_type |-> relationship_type, status |-> status,
                       relationships |-> relationships]]
    /\ result' = [result EXCEPT ![p] = "ok"]
    /\ UNCHANGED <<characters, personalities, char_uuids, rels, uuids, now, pc>>

----------------------------------------------------------------------------
(* The create_relationship and get_character_relationships tools *)

\* uuid.UUID(v) accepts the string.
is_uuid(v) == v \in KnownCharacterIds

\* The data mappings callers pass to the create_relationship tool: a valid one,
\* and ones with equal ids, an id that is no UUID, an unknown type, a strength
\* out of range and an id that names no character.
ToolCreateInputs ==
    {[character_a_id |-> d[1], character_b_id |-> d[2], relationship_type |-> d[3],
      strength |-> d[4], status |-> "active", history |-> None, is_mutual |-> TRUE] :
        d \in {<<"c1", "c2", "mentor", Some(5)>>,
               <<"c1", "c1", "mentor", Some(5)>>,
               <<"not-a-uuid", "c2", "mentor", Some(5)>>,
               <<"c1", "c2", "enemy", Some(5)>>,
               <<"c1", "c2", "mentor", Some(11)>>,
               <<"c1", "c3", "mentor", None>>}}

\* CreateRelationshipInput(**data) returns (TRUE) or raises ValidationError.
CreateRelationshipInput(data) ==
    /\ is_uuid(data.character_a_id) /\ is_uuid(data.character_b_id)
    /\ data.relationship_type \in RelationshipType
    /\ data.status \in RelationshipStatus
    /\ data.strength = None \/ (data.strength[1] >= 1 /\ data.strength[1] <= 10)
    /\ data.character_b_id # data.character_a_id

\* CreateRelationshipTool.execute.  After the input model is built, execute calls
\* its validator validate_different_characters without arguments, which raises
\* TypeError: the session is never asked for and the service never called.
ToolCreateRelationship(p, data) ==
    /\ pc[p] = "ready"
    /\ LET raised == IF ~CreateRelationshipInput(data) THEN "ValidationError"
                     ELSE "TypeError"
           response == failure_result("create_relationship", raised)
       IN  /\ call' = [call EXCEPT ![p] =
                         [op |-> "tool_create_relationship", arg |-> data,
                          response |-> response]]
           /\ result' = [result EXCEPT ![p] =
                           IF "error_type" \in DOMAIN response
                           THEN response.error_type ELSE "raised"]
    /\ UNCHANGED <<characters, personalities, char_uuids, rels, uuids, now, pc>>

\* The data mappings callers pass to the get_character_relationships tool.
ToolGetInputs ==
    {[character_id |-> d[1], relationship_type |-> d[2]] :
        d \in {<<"c1", None>>, <<"c2", None>>, <<"c2", Some("mentor")>>,
               <<"c1", Some("enemy")>>, <<"not-a-uuid", None>>}}

\* GetCharacterRelationshipsInput(**data) returns (TRUE) or raises ValidationError.
GetCharacterRelationshipsInput(data) ==
    /\ is_uuid(data.character_id)
    /\ data.relationship_type = None \/ data.relationship_type[1] \in RelationshipType

\* The entry execute makes of a row: related_character is the character at the
\* end of the row that character_a_id = character_id does not pick.
formatted_rel(rel, character_id) ==
    [relationship_id |-> rel.id,
     related_character |-> IF rel.character_a_id = character_id
                           THEN rel.character_b_id ELSE rel.character_a_id,
     relationship_type |-> rel.relationship_type,
     strength |-> rel.strength,
     status |-> rel.status,
     history |-> rel.history,
     is_mutual |-> rel.is_mutual,
     created_at |-> rel.created_at]

\* GetCharacterRelationshipsTool.execute: the input model, the session, the
\* service call and the formatting of its rows.
ToolGetCharacterRelationships(p, data) ==
    /\ pc[p] = "ready"
    /\ \E relationships \in order_by_created_at_desc(
              matching_relationships(rels, data.character_id, data.relationship_type, None)) :
          LET response ==
                  IF ~GetCharacterRelationshipsInput(data)
                  THEN failure_result("get_character_relationships", "ValidationError")
                  ELSE IF ~session_entered
                  THEN failure_result("get_character_relationships", "TypeError")
                  ELSE [relationships |->
                            [i \in DOMAIN relationships |->
                                formatted_rel(relationships[i], data.character_id)],
                        success |-> TRUE]
          IN  /\ call' = [call EXCEPT ![p] =
                            [op |-> "tool_get_character_relationships", arg |-> data,
                             response |-> response]]
              /\ result' = [result EXCEPT ![p] =
                              IF "error_type" \in DOMAIN response THEN response.error_type
                              ELSE IF "success" \in DOMAIN response THEN "ok"
                              ELSE "raised"]
    /\ UNCHANGED <<characters, personalities, char_uuids, rels, uuids, now, pc>>

----------------------------------------------------------------------------
(* RelationshipService: get_relationship_network *)

\* Relationship.get_other_character_id; the rows passed have the character at
\* one end.
get_other_character_id(rel, character_id) ==
    IF character_id = rel.character_a_id THEN rel.character_b_id
    ELSE rel.character_a_id

\* A traversal that takes no character for visited.
never_visited(char_id, visited_characters) == FALSE

\* `if char_id in visited_characters: continue`
already_visited(char_id, visited_characters) == char_id \in visited_characters

\* The depth written into an edge without the shift by one.
edge_depth_unshifted(depth) == depth

\* "depth": depth + 1
edge_depth(depth) == depth + 1

\* _get_characters_by_ids, and the characters mapping made of its rows.
_get_characters_by_ids(character_ids) ==
    LET found == {c \in characters : c.id \in character_ids}
    IN  [id \in {c.id : c \in found} |->
            [id |-> id, name |-> (CHOOSE c \in found : c.id = id).name]]

\* The setup before the loop.  expanded (kept with the call) lists the characters
\* whose relationships were queried, in the order of the queries.
NetworkStart(p, character_id, max_depth) ==
    /\ pc[p] = "ready"
    /\ pc' = [pc EXCEPT ![p] = "network"]
    /\ call' = [call EXCEPT ![p] =
                  [op |-> "get_relationship_network", id |-> character_id,
                   max_depth |-> max_depth, depth |-> 0,
                   current_level |-> {character_id}, next_level |-> {},
                   visited_characters |-> {}, relationships |-> <<>>,
                   expanded |-> <<>>]]
    /\ result' = [result EXCEPT ![p] = "none"]
    /\ UNCHANGED <<characters, personalities, char_uuids, rels, uuids, now>>

\* One pass of the inner loop: a character of the current level, taken in the
\* order the set gives, is skipped or expanded with one query.  current_level
\* holds the characters of the level still to come; after the last of them the
\* outer loop goes to the next level.
NetworkExpand(p) ==
    /\ pc[p] = "network"
    /\ call[p].depth < call[p].max_depth
    /\ call[p].current_level # {}
    /\ \E char_id \in call[p].current_level :
       \E relationships \in order_by_created_at_desc(
                                matching_relationships(rels, char_id, None, None)) :
          LET c == call[p]
              skipped == already_visited(char_id, c.visited_characters)
              visited_characters == c.visited_characters \cup {char_id}
              edges ==
                  [i \in DOMAIN relationships |->
                      [id |-> relationships[i].id,
                       from_character_id |-> char_id,
                       to_character_id |-> get_other_character_id(relationships[i], char_id),
                       type |-> relationships[i].relationship_type,
                       strength |-> relationships[i].strength,
                       status |-> relationships[i].status,
                       depth |-> edge_depth(c.depth)]]
              next_level ==
                  IF skipped THEN c.next_level
                  ELSE c.next_level \cup
                         ({get_other_character_id(relationships[i], char_id) :
                               i \in DOMAIN relationships} \ visited_characters)
              rest == c.current_level \ {char_id}
          IN  call' = [call EXCEPT ![p] =
                  [c EXCEPT
                     !.visited_characters = visited_characters,
                     !.relationships = IF skipped THEN @ ELSE @ \o edges,
                     !.expanded = IF skipped THEN @ ELSE Append(@, char_id),
                     !.depth = IF rest = {} THEN @ + 1 ELSE @,
                     !.current_level = IF rest = {} THEN next_level ELSE rest,
                     !.next_level = IF rest = {} THEN {} ELSE next_level]]
    /\ UNCHANGED <<characters, personalities, char_uuids, rels, uuids, now, pc, result>>

\* The loop is over (range(max_depth) exhausted, or an empty level): the
\* characters visited are fetched and the network returned.
NetworkFinish(p) ==
    /\ pc[p] = "network"
    /\ ~(call[p].depth < call[p].max_depth) \/ call[p].current_level = {}
    /\ call' = [call EXCEPT ![p] =
                  [op |-> "get_relationship_network", id |-> call[p].id,
                   max_depth |-> call[p].max_depth,
                   relationships |-> call[p].relationships,
                   characters |-> _get_characters_by_ids(call[p].visited_characters),
                   expanded |-> call[p].expanded]]
    /\ result' = [result EXCEPT ![p] = "ok"]
    /\ pc' = [pc EXCEPT ![p] = "ready"]
    /\ UNCHANGED <<characters, personalities, char_uuids, rels, uuids, now>>

----------------------------------------------------------------------------
(* Specifications *)

\* The ids a caller may pass: every key issued so far and one not issued yet.
KnownIds == 1..(uuids + 1)

Next ==
    \E p \in Procs :
        \/ \E data \in CreateInputs : CreateRead(p, data)
        \/ CreateCommit(p)
        \/ \E id \in KnownIds, updates \in UpdateInputs : UpdateRead(p, id, updates)
        \/ UpdateCommit(p)
        \/ \E id \in KnownIds : DeleteRead(p, id)
        \/ DeleteCommit(p)

\* Concurrent callers.
Spec == Init /\ [][Next]_vars

\* One caller: the calls run one after another.
SeqNext ==
    \/ \E data \in CreateInputs : CreateRead("p1", data)
    \/ CreateCommit("p1")
    \/ \E id \in KnownIds, updates \in UpdateInputs : UpdateRead("p1", id, updates)
    \/ UpdateCommit("p1")
    \/ \E id \in KnownIds : DeleteRead("p1", id)
    \/ DeleteCommit("p1")

SeqSpec == Init /\ [][SeqNext]_vars

\* Concurrent callers that only create.
CreateNext ==
    \E p \in Procs :
        \/ \E data \in CreateInputs : CreateRead(p, data)
        \/ CreateCommit(p)

CreateSpec == Init /\ [][CreateNext]_vars

\* One caller working on characters, with relationships in the store.
CharSeqNext ==
    \/ \E data \in CreateCharacterInputs : CreateCharacter("p1", data)
    \/ \E id \in KnownCharacterIds, updates \in CharacterUpdates, tool \in BOOLEAN :
          UpdateCharacterRead("p1", id, updates, tool)
    \/ UpdateCharacterCommit("p1")
    \/ \E data \in CreateInputs : CreateRead("p1", data)
    \/ CreateCommit("p1")

CharSeqSpec == Init /\ [][CharSeqNext]_vars

\* Concurrent callers of update_character, with valid allow-listed updates.
CharUpdateNext ==
    \E p \in Procs :
        \/ \E id \in KnownCharacterIds, updates \in ValidCharacterUpdates, tool \in BOOLEAN :
              UpdateCharacterRead(p, id, updates, tool)
        \/ UpdateCharacterCommit(p)

CharUpdateSpec == Init /\ [][CharUpdateNext]_vars

\* Concurrent callers that create characters and relationships and delete
\* characters.
RefNext ==
    \E p \in Procs :
        \/ \E data \in CreateCharacterInputs : CreateCharacter(p, data)
        \/ \E data \in CreateInputs : CreateRead(p, data)
        \/ CreateCommit(p)
        \/ \E id \in KnownCharacterIds : DeleteCharacterRead(p, id)
        \/ DeleteCharacterCommit(p)

RefSpec == Init /\ [][RefNext]_vars

\* Concurrent callers of the four mutating operations on relationships and of
\* update_character.
MutateNext ==
    \E p \in Procs :
        \/ \E data \in CreateInputs : CreateRead(p, data)
        \/ CreateCommit(p)
        \/ \E id \in KnownIds, updates \in MutateUpdates : UpdateRead(p, id, updates)
        \/ UpdateCommit(p)
        \/ \E id \in KnownIds : DeleteRead(p, id)
        \/ DeleteCommit(p)
        \/ \E id \in KnownCharacterIds, updates \in MutateCharacterUpdates :
              UpdateCharacterRead(p, id, updates, FALSE)
        \/ UpdateCharacterCommit(p)

MutateSpec == Init /\ [][MutateNext]_vars

\* The store with a third character, created without traits.
ReadInit ==
    /\ characters = InitialCharacters \cup
                       {NewCharacter([name |-> "Zed", age |-> None,
                                      personality_traits |-> None], CharIds[3])}
    /\ personalities = {}
    /\ char_uuids = 3
    /\ rels = {}
    /\ uuids = 0
    /\ now = 0
    /\ pc = [p \in Procs |-> "ready"]
    /\ call = [p \in Procs |-> NoCall]
    /\ result = [p \in Procs |-> "none"]

\* The relationships created before the readings: c1 mentors c2, c3 works with c1.
ReadCreateInputs ==
    {[character_a_id |-> abt[1], character_b_id |-> abt[2],
      relationship_type |-> abt[3], strength |-> Some(5), status |-> "active",
      history |-> None, metadata |-> None, is_mutual |-> m] :
        abt \in {<<"c1", "c2", "mentor">>, <<"c3", "c1", "professional">>},
        m \in BOOLEAN}

\* The updates made before the readings: a change of status and a created_at.
ReadUpdates == {[status |-> "inactive"], [created_at |-> 0]}

\* The (relationship_type, status) filters of the readings.
ReadFilters ==
    {<<None, None>>, <<Some("mentor"), None>>, <<None, Some("inactive")>>}

\* One caller that creates and updates relationships and lists those of a
\* character.
ReadNext ==
    \/ \E data \in ReadCreateInputs : CreateRead("p1", data)
    \/ CreateCommit("p1")
    \/ \E id \in KnownIds, updates \in ReadUpdates : UpdateRead("p1", id, updates)
    \/ UpdateCommit("p1")
    \/ \E id \in KnownCharacterIds, f \in ReadFilters :
          GetCharacterRelationships("p1", id, f[1], f[2])

ReadSpec == ReadInit /\ [][ReadNext]_vars

\* One caller that creates relationships through the service and calls the three
\* tools.
ToolNext ==
    \/ \E data \in CreateInputs : CreateRead("p1", data)
    \/ CreateCommit("p1")
    \/ \E data \in ToolCreateInputs : ToolCreateRelationship("p1", data)
    \/ \E id \in KnownCharacterIds, updates \in CharacterUpdates :
          UpdateCharacterRead("p1", id, updates, TRUE)
    \/ \E data \in ToolGetInputs : ToolGetCharacterRelationships("p1", data)

ToolSpec == Init /\ [][ToolNext]_vars

\* The relationships created before the traversals: the sides of the triangle
\* c1 - c2 - c3 - c1, the first mutual or not, the second mutual, the third not.
NetworkCreateInputs ==
    {[character_a_id |-> d[1], character_b_id |-> d[2],
      relationship_type |-> d[3], strength |-> Some(5), status |-> "active",
      history |-> None, metadata |-> None, is_mutual |-> d[4]] :
        d \in {<<"c1", "c2", "mentor", TRUE>>, <<"c1", "c2", "mentor", FALSE>>,
               <<"c2", "c3", "friendship", TRUE>>,
               <<"c3", "c1", "professional", FALSE>>}}

\* One caller that creates relationships and traverses the network.
NetworkNext ==
    \/ \E data \in NetworkCreateInputs : CreateRead("p1", data)
    \/ CreateCommit("p1")
    \/ \E id \in KnownCharacterIds, max_depth \in 0..MaxDepth :
          NetworkStart("p1", id, max_depth)
    \/ NetworkExpand("p1")
    \/ NetworkFinish("p1")

NetworkSpec == ReadInit /\ [][NetworkNext]_vars

\* The same, with the traversal going on once it was started: the coroutine is
\* resumed after each query.
NetworkLiveSpec ==
    NetworkSpec /\ WF_vars(NetworkExpand("p1")) /\ WF_vars(NetworkFinish("p1"))

\* Concurrent callers of update_character whose updates carry personality_traits.
UpsertNext ==
    \E p \in Procs :
        \/ \E id \in KnownCharacterIds, updates \in UpsertUpdates :
              UpdateCharacterRead(p, id, updates, FALSE)
        \/ UpdateCharacterCommit(p)

UpsertSpec == Init /\ [][UpsertNext]_vars

----------------------------------------------------------------------------
(* Vocabulary of the properties *)

\* Every failure of create_relationship is a RelationshipValidationError.
CreateValidationFailures ==
    {"characters_do_not_exist", "already_exists", "failed_to_create"}

SameContent(r, m) ==
    /\ r.strength = m.strength
    /\ r.status = m.status
    /\ r.history = m.history
    /\ r.metadata = m.metadata

\* The caller's last call was a create_relationship, and it has returned.
FinishedCreate(p) == pc[p] = "ready" /\ call[p].op = "create"

\* ... and it got as far as its flush.
FlushedCreate(p) == FinishedCreate(p) /\ call[p].t1 # None

\* Two finished creations of which each ran its duplicate-detection query
\* before the other committed.
Raced(p, q) ==
    /\ FlushedCreate(p) /\ FlushedCreate(q)
    /\ call[p].t0[1] <= call[q].t1[1]
    /\ call[q].t0[1] <= call[p].t1[1]

SameDirectedKey(d, e) ==
    /\ d.character_a_id = e.character_a_id
    /\ d.character_b_id = e.character_b_id
    /\ d.relationship_type = e.relationship_type

\* The row with this id is one row of a mutual pair of the table.
InMutualPair(table, relationship_id) ==
    \E r \in table :
        /\ r.id = relationship_id
        /\ r.is_mutual
        /\ \E m \in ReverseOf(table, r) : m.is_mutual

----------------------------------------------------------------------------
(* C1..C10 *)

\* C1 (as claimed): pairing invariant. Every stored row whose is_mutual flag is
\* true has a stored counterpart row with the endpoints swapped and the same type.
C1_PairingInvariant ==
    \A r \in rels : r.is_mutual => ReverseOf(rels, r) # {}

\* C2 (as claimed): mirror content equality. Whenever a row with is_mutual = true
\* is stored, the stored row for the swapped endpoints and the same type has
\* is_mutual = true and the same strength, status, history and metadata.
C2_MirrorContentEquality ==
    \A r \in rels :
        r.is_mutual => \A m \in ReverseOf(rels, r) : m.is_mutual /\ SameContent(r, m)

\* C3 (as claimed): of two create_relationship calls for the same (A,B,type) that
\* both passed the duplicate-detection query before either committed, exactly one
\* succeeds and the other fails with "already exists", and the store then holds
\* the rows of exactly one creation.
C3_RaceHasOneWinnerOneAlreadyExists ==
    \A p \in Procs : \A q \in Procs \ {p} :
        (Raced(p, q) /\ SameDirectedKey(call[p].arg, call[q].arg))
        => \E w \in {p, q} : \E l \in {p, q} \ {w} :
              /\ result[w] = "ok"
              /\ result[l] = "already_exists"
              /\ Cardinality(MatchingBetween(rels, call[w].arg.character_a_id,
                                             call[w].arg.character_b_id,
                                             Some(call[w].arg.relationship_type)))
                   = IF call[w].arg.is_mutual THEN 2 ELSE 1

\* C4 (as claimed): at most one relationship per unordered pair and type. The rows
\* stored for a pair and type are a single non-mutual row, or one mutual row
\* together with its mirror.
C4_OneRelationshipPerUnorderedPair ==
    \A r \in rels :
        LET same == MatchingBetween(rels, r.character_a_id, r.character_b_id,
                                    Some(r.relationship_type))
        IN  \/ same = {r} /\ ~r.is_mutual
            \/ Cardinality(same) = 2 /\ \A m \in same : m.is_mutual

\* C5 (as claimed): sequential uniqueness. A create_relationship call for a pair
\* and type for which a row is already stored, in either order, returns the
\* "already exists" failure and leaves the table as it was.
C5_SecondCreateAlreadyExists ==
    [][\A p \in Procs :
          ( /\ FinishedCreate(p)'
            /\ call'[p] # call[p]
            /\ MatchingBetween(rels, call'[p].arg.character_a_id,
                               call'[p].arg.character_b_id,
                               Some(call'[p].arg.relationship_type)) # {} )
          => (result'[p] = "already_exists" /\ rels' = rels)]_vars

\* C6: no self-loop. A create_relationship call whose two character ids are equal
\* is rejected with a validation failure before anything is flushed, and no
\* stored row has equal endpoints.
C6_NoSelfLoop ==
    /\ \A r \in rels : r.character_a_id # r.character_b_id
    /\ \A p \in Procs :
          (call[p].op = "create" /\ call[p].arg.character_a_id = call[p].arg.character_b_id)
          => /\ pc[p] = "ready"
             /\ call[p].t1 = None
             /\ result[p] \in CreateValidationFailures

\* A create_relationship call of a character with itself has been rejected while
\* a relationship is stored.
C6_Witness ==
    \E p \in Procs :
        /\ FinishedCreate(p)
        /\ call[p].arg.character_a_id = call[p].arg.character_b_id
        /\ call[p].arg.character_a_id \in CharacterIds(characters)
        /\ result[p] \in CreateValidationFailures
        /\ rels # {}

\* C7 (as claimed): mirror propagation. After a successful update_relationship
\* whose updates mapping sets strength, status or history on either row of a mutual
\* pair, the other row of the pair holds the same strength, status and history as
\* the updated row.
C7_MirrorPropagation ==
    [][\A p \in Procs :
          ( /\ pc[p] = "update_commit" /\ pc'[p] = "ready"
            /\ result'[p] = "ok"
            /\ DOMAIN call[p].arg \cap {"strength", "status", "history"} # {}
            /\ InMutualPair(rels, call[p].row.id) )
          => \A r \in rels :
                r.id = call[p].row.id
                => \A m \in ReverseOf(rels, r) :
                      \E n \in rels' :
                          /\ n.id = r.id
                          /\ \E o \in rels' :
                                /\ o.id = m.id
                                /\ o.strength = n.strength
                                /\ o.status = n.status
                                /\ o.history = n.history]_vars

\* C8: delete symmetry. delete_relationship on either row of a mutual pair returns
\* true and removes both rows; get_relationship_between_characters then returns
\* no row for (A,B,type) and none for (B,A,type).
C8_DeleteSymmetry ==
    [][\A p \in Procs :
          ( /\ pc[p] = "delete_commit" /\ pc'[p] = "ready"
            /\ InMutualPair(rels, call[p].row.id) )
          => LET a == call[p].row.character_a_id
                 b == call[p].row.character_b_id
                 t == Some(call[p].row.relationship_type)
             IN  /\ result'[p] = "true"
                 /\ \A r \in rels :
                       r.id = call[p].row.id
                       => \A m \in ReverseOf(rels, r) \cup {r} :
                             \A n \in rels' : n.id # m.id
                 /\ MatchingBetween(rels', a, b, t) = {}
                 /\ get_relationship_between_characters(rels', a, b, t) = None
                 /\ get_relationship_between_characters(rels', b, a, t) = None]_vars

\* The two rows of one mutual creation are gone after one delete_relationship:
\* two keys were issued, two commits were made, the last call was a delete.
C8_Witness ==
    /\ rels = {} /\ uuids = 2 /\ now = 2
    /\ \E p \in Procs : pc[p] = "ready" /\ call[p].op = "delete" /\ result[p] = "true"

\* C9 (as claimed): symmetric lookup. After a mutual create_relationship(A,B,type)
\* has succeeded, get_relationship_between_characters(B,A,type) returns a row, with
\* the same content as the row returned for (A,B,type).
C9_SymmetricLookup ==
    \A p \in Procs :
        (FinishedCreate(p) /\ result[p] = "ok" /\ call[p].arg.is_mutual)
        => LET a == call[p].arg.character_a_id
               b == call[p].arg.character_b_id
               t == Some(call[p].arg.relationship_type)
               ba == get_relationship_between_characters(rels, b, a, t)
               ab == get_relationship_between_characters(rels, a, b, t)
           IN  ba # None /\ ab # None /\ SameContent(ba[1], ab[1])

\* C10 (as claimed): update_relationship leaves the targeted row's id,
\* character_a_id, character_b_id, relationship_type, is_mutual and created_at as
\* they were, whatever keys the updates mapping holds.
C10_UpdateKeepsIdentityFields ==
    [][\A p \in Procs :
          (pc[p] = "update_commit" /\ pc'[p] = "ready")
          => \A r \in rels :
                r.id = call[p].row.id
                => \E n \in rels' :
                      /\ n.id = r.id
                      /\ n.character_a_id = r.character_a_id
                      /\ n.character_b_id = r.character_b_id
                      /\ n.relationship_type = r.relationship_type
                      /\ n.is_mutual = r.is_mutual
                      /\ n.created_at = r.created_at]_vars

\* C11 (as claimed): operations on a non-mutual relationship touch only that row.
\* A successful create_relationship with is_mutual false adds exactly one row and
\* changes no other; update_relationship and delete_relationship on a stored row
\* whose is_mutual is false leave every other row of the table as it was.
C11_NonMutualTouchesOneRow ==
    [][\A p \in Procs :
          /\ ( /\ pc[p] = "create_commit" /\ pc'[p] = "ready"
               /\ result'[p] = "ok"
               /\ ~call[p].arg.is_mutual )
             => /\ rels \subseteq rels'
                /\ Cardinality(rels') = Cardinality(rels) + 1
          /\ ( /\ pc[p] \in {"update_commit", "delete_commit"} /\ pc'[p] = "ready"
               /\ \E r \in rels : r.id = call[p].row.id /\ ~r.is_mutual )
             => /\ \A r \in rels : r.id # call[p].row.id => r \in rels'
                /\ \A n \in rels' : n.id # call[p].row.id => n \in rels]_vars

\* The step finishes a call of p that was turned away at its read: no commit is
\* attempted and no other caller moves.
RejectedAtRead(p, op) ==
    /\ pc[p] = "ready" /\ pc'[p] = "ready"
    /\ call'[p].op = op
    /\ now' = now
    /\ \A q \in Procs \ {p} : pc'[q] = pc[q] /\ call'[q] = call[q] /\ result'[q] = result[q]

\* C12: delete_relationship is idempotent. A call whose id names a stored row
\* goes on to delete it and returns true, after which neither that id nor the id
\* of a mirror row it removed names a stored row; a call returns false exactly
\* when its id names no stored row, and then the store is as it was.
C12_DeleteIdempotent ==
    [][\A p \in Procs :
          /\ (pc[p] = "ready" /\ pc'[p] = "delete_commit")
             => /\ call'[p].row \in rels
                /\ call'[p].row.id = call'[p].id
          /\ (pc[p] = "delete_commit" /\ pc'[p] = "ready")
             => /\ result'[p] = "true"
                /\ \A r \in rels :
                      r.id = call[p].id
                      => \A m \in {r} \cup (IF r.is_mutual THEN ReverseOf(rels, r) ELSE {}) :
                            get_relationship_by_id(rels', m.id) = None
          /\ (RejectedAtRead(p, "delete") /\ result'[p] = "false")
             => /\ get_relationship_by_id(rels, call'[p].id) = None
                /\ rels' = rels
                /\ characters' = characters
                /\ personalities' = personalities]_vars

\* A second delete_relationship returned false: its id is a key that was issued,
\* the store held a mutual pair, and both rows are gone.
C12_Witness ==
    /\ rels = {} /\ uuids = 2
    /\ \E p \in Procs :
          /\ pc[p] = "ready" /\ call[p].op = "delete" /\ result[p] = "false"
          /\ call[p].id \in 1..uuids

\* The caller's update_character call commits in this step.
CommitsCharacterUpdate(p) == pc[p] = "update_character_commit" /\ pc'[p] = "ready"

C14_ConcurrentVersionIncrement ==
    [][\A p \in Procs :
          (CommitsCharacterUpdate(p) /\ result'[p] = "ok")
          => \A c \in characters :
                c.id = call[p].id
                => \A n \in characters' : n.id = c.id => n.version > c.version]_vars

\* C15 (as claimed): update_character never rejects a concurrent writer. A call
\* on an existing character with valid allow-listed fields succeeds in every
\* interleaving with other update_character calls on that character.
C15_NeverRejectsConcurrentWriter ==
    [][\A p \in Procs :
          ( /\ CommitsCharacterUpdate(p)
            /\ call[p].arg \in ValidCharacterUpdates
            /\ call[p].id \in CharacterIds(characters) )
          => result'[p] = "ok"]_vars

\* C16: update_character leaves the relationship table unchanged. Whatever the
\* character and the updates mapping, and whether the call succeeds or fails, the
\* relationship rows are the same before and after each step of the call.
C16_UpdateCharacterKeepsRelationships ==
    [][\A p \in Procs :
          (CommitsCharacterUpdate(p) \/ RejectedAtRead(p, "update_character"))
          => rels' = rels]_vars

\* A character that is an endpoint of a stored relationship has been updated
\* with success.
C16_Witness ==
    \E p \in Procs :
        /\ pc[p] = "ready" /\ call[p].op = "update_character" /\ result[p] = "ok"
        /\ \E c \in characters : c.id = call[p].id /\ c.version = 2
        /\ \E r \in rels : r.character_a_id = call[p].id
        /\ \E r \in rels : r.character_b_id = call[p].id

\* C17 (as claimed): the update_character tool, given an empty updates mapping or
\* a key outside the allow-list, never reaches the write, fails with the
\* validation kind of failure and leaves characters and personalities as they were.
C17_DisallowedUpdatesAreValidationFailures ==
    [][\A p \in Procs :
          ( /\ pc[p] = "ready"
            /\ call'[p] # call[p] \/ result'[p] # result[p]
            /\ call'[p].op = "update_character"
            /\ call'[p].tool
            /\ DOMAIN call'[p].arg = {} \/ DOMAIN call'[p].arg \ allowed_fields # {} )
          => /\ pc'[p] = "ready"
             /\ result'[p] = "validation_error"
             /\ characters' = characters
             /\ personalities' = personalities]_vars

\* C18: referential integrity. In every reachable state both endpoints of every
\* relationship row are rows of the characters table, and a delete_character
\* call that returns true leaves no relationship row with the character as an
\* endpoint and no personality row of the character.
C18_ReferentialIntegrity ==
    /\ [](\A r \in rels : {r.character_a_id, r.character_b_id} \subseteq CharacterIds(characters))
    /\ [][\A p \in Procs :
             (pc[p] = "delete_character_commit" /\ pc'[p] = "ready")
             => /\ result'[p] = "true"
                /\ call[p].id \notin CharacterIds(characters')
                /\ \A r \in rels' : call[p].id \notin {r.character_a_id, r.character_b_id}
                /\ \A r \in personalities' : r.character_id # call[p].id]_vars

\* delete_character has removed a character together with its personality row
\* and a relationship row that another caller's create_relationship committed
\* while the delete_character call was in flight.
C18_Witness ==
    \E p \in Procs :
        /\ pc[p] = "ready" /\ call[p].op = "delete_character" /\ result[p] = "true"
        /\ call[p].cascaded[1] = 1 /\ call[p].cascaded[2] >= 1
        /\ \E q \in Procs \ {p} : FlushedCreate(q) /\ result[q] = "ok" /\ call[q].t1 = Some(now - 2)

\* C19: a create_relationship call in which character_a_id or character_b_id (or
\* both) names no row of the characters table is turned away with the failure
\* "One or both characters do not exist", before any flush, and inserts no row.
C19_MissingCharactersRejected ==
    [][\A p \in Procs :
          ( /\ pc[p] = "ready"
            /\ call'[p] # call[p] \/ result'[p] # result[p] \/ pc'[p] # pc[p]
            /\ call'[p].op = "create"
            /\ ~({call'[p].arg.character_a_id, call'[p].arg.character_b_id}
                    \subseteq CharacterIds(characters)) )
          => /\ pc'[p] = "ready"
             /\ result'[p] = "characters_do_not_exist"
             /\ rels' = rels
             /\ uuids' = uuids]_vars

\* A create_relationship call was turned away when neither of its two ids named
\* a character: one was never issued, the other's character had been deleted.
C19_Witness ==
    \E p \in Procs :
        /\ FinishedCreate(p) /\ result[p] = "characters_do_not_exist"
        /\ call[p].arg.character_a_id # call[p].arg.character_b_id
        /\ {call[p].arg.character_a_id, call[p].arg.character_b_id}
               \cap CharacterIds(characters) = {}
        /\ \E q \in Procs : call[q].op = "delete_character" /\ result[q] = "true"

\* What a call reports when it fails.
Failures ==
    CreateValidationFailures \cup
    {"not_found", "failed_to_update", "failed_to_update_character",
     "failed_to_create_character", "internal_error", "not_found_error", "validation_error"}

\* The step is a step of p that ends a call of p.
EndsCall(p) ==
    /\ pc'[p] = "ready"
    /\ pc'[p] # pc[p] \/ call'[p] # call[p] \/ result'[p] # result[p]

\* C20: atomicity on failure. Whenever a create_relationship, update_relationship,
\* delete_relationship or update_character call reports a failure, the step that
\* ends it leaves the committed relationships, characters (versions included) and
\* personalities exactly as they were.
C20_FailureLeavesStoreUnchanged ==
    [][\A p \in Procs :
          (EndsCall(p) /\ result'[p] \in Failures)
          => /\ rels' = rels
             /\ characters' = characters
             /\ personalities' = personalities]_vars

\* An update_character call carrying personality_traits failed at its flush,
\* after its UPDATE of the character: another call had inserted the personality
\* row and raised the version since this call read the character.
C20_Witness ==
    \E p \in Procs :
        /\ pc[p] = "ready" /\ call[p].op = "update_character"
        /\ result[p] = "failed_to_update_character"
        /\ "row" \in DOMAIN call[p]
        /\ "personality_traits" \in DOMAIN call[p].arg
        /\ \E c \in characters : c.id = call[p].id /\ c.version = call[p].row.version + 1
        /\ personality_of(personalities, call[p].id) # None

\* The step is a get_character_relationships call of p.
ListsRelationships(p) ==
    /\ pc[p] = "ready" /\ pc'[p] = "ready"
    /\ call'[p].op = "get_character_relationships"
    /\ rels' = rels
    /\ call'[p] # call[p] \/ result'[p] # result[p]

\* The rows of a listing, as a set.
Listed(relationships) == {relationships[i] : i \in DOMAIN relationships}

\* C22 (as claimed): get_character_relationships(X, type?, status?) returns
\* exactly the stored rows in which X is character_a_id or character_b_id and
\* which match the filters given, each row once, most recently created first:
\* the listing is in descending order of created_at, and the created_at of a
\* stored row is the time of its creation, which no call changes.
C22_ListingExactAndNewestFirst ==
    /\ [][\A p \in Procs :
            ListsRelationships(p) =>
               LET relationships == call'[p].relationships
               IN  /\ Listed(relationships) =
                         {r \in rels :
                             /\ call'[p].id \in {r.character_a_id, r.character_b_id}
                             /\ call'[p].relationship_type # None
                                   => r.relationship_type = call'[p].relationship_type[1]
                             /\ call'[p].status # None => r.status = call'[p].status[1]}
                   /\ Len(relationships) = Cardinality(Listed(relationships))
                   /\ \A i, j \in DOMAIN relationships :
                         i < j => relationships[i].created_at >= relationships[j].created_at]_vars
    /\ [][\A r \in rels : \A s \in rels' : r.id = s.id => s.created_at = r.created_at]_vars

\* C24 (as claimed): get_character_relationships without filters returns one
\* entry per relationship the character takes part in: no two entries of a
\* listing join the character to the same other character with the same type.
C24_OneEntryPerRelationship ==
    [][\A p \in Procs :
          ListsRelationships(p) =>
             LET relationships == call'[p].relationships
                 other(r) == IF r.character_a_id = call'[p].id
                             THEN r.character_b_id ELSE r.character_a_id
             IN  \A i, j \in DOMAIN relationships :
                    (/\ other(relationships[i]) = other(relationships[j])
                     /\ relationships[i].relationship_type = relationships[j].relationship_type)
                    => i = j]_vars

\* A result of execute has the uniform shape: a success flag, and with
\* success = false an error message and an error_type.
UniformResult(response) ==
    /\ "success" \in DOMAIN response
    /\ response.success \in BOOLEAN
    /\ response.success = FALSE =>
          /\ {"error", "error_type"} \subseteq DOMAIN response
          /\ response.error \in Exceptions
          /\ response.error_type \in {"validation_error", "not_found_error", "internal_error"}

C23_ToolListsTheOtherEndpoint ==
    \A p \in Procs :
        (/\ call[p].op = "tool_get_character_relationships"
         /\ call[p].arg.relationship_type = None
         /\ \E r \in rels : r.is_mutual /\ call[p].arg.character_id
                                             \in {r.character_a_id, r.character_b_id})
        => LET entries == call[p].response.relationships
               X == call[p].arg.character_id
           IN  /\ call[p].response.success
               /\ \A r \in rels :
                     (r.is_mutual /\ X \in {r.character_a_id, r.character_b_id})
                     => \E i \in DOMAIN entries :
                           /\ entries[i].relationship_type = r.relationship_type
                           /\ entries[i].related_character
                                 \in {r.character_a_id, r.character_b_id} \ {X}
               /\ \A i \in DOMAIN entries : entries[i].related_character # X

\* The caller's call is a get_relationship_network, under way or returned.
InNetwork(p) == call[p].op = "get_relationship_network"

\* ... and it has returned.
FinishedNetwork(p) == InNetwork(p) /\ pc[p] = "ready"

NoRepeats(seq) == \A i, j \in DOMAIN seq : seq[i] = seq[j] => i = j

\* The characters joined to a character by a stored row.
Neighbours(table, character_id) ==
    {get_other_character_id(r, character_id) :
        r \in {x \in table : character_id \in {x.character_a_id, x.character_b_id}}}

\* The characters at breadth-first distance at most n from start.
RECURSIVE Within(_, _, _)
Within(table, start, n) ==
    IF n <= 0 THEN {start}
    ELSE LET inner == Within(table, start, n - 1)
         IN  inner \cup UNION {Neighbours(table, x) : x \in inner}

\* The breadth-first distance of a character that can be reached from start.
Distance(table, start, character_id) ==
    CHOOSE n \in 0..Cardinality(characters) :
        /\ character_id \in Within(table, start, n)
        /\ n = 0 \/ character_id \notin Within(table, start, n - 1)

\* C25: get_relationship_network terminates for every finite relationship graph,
\* cycles included, and every max_depth: a traversal that was started returns.
\* Each character is expanded at most once, and appears at most once in the
\* characters of the output: under its own id, as one of the expanded.
C25_NetworkTerminates ==
    /\ \A p \in Procs : (pc[p] = "network") ~> FinishedNetwork(p)
    /\ [](\A p \in Procs :
             InNetwork(p) =>
                /\ NoRepeats(call[p].expanded)
                /\ "characters" \in DOMAIN call[p] =>
                      /\ DOMAIN call[p].characters \subseteq
                            {call[p].expanded[i] : i \in DOMAIN call[p].expanded}
                      /\ \A k \in DOMAIN call[p].characters :
                            call[p].characters[k].id = k)

\* A traversal with the largest max_depth has returned from a graph in which
\* the three characters form a cycle, having expanded all three.
C25_Witness ==
    /\ FinishedNetwork("p1")
    /\ call["p1"].max_depth >= 3
    /\ Len(call["p1"].expanded) = 3
    /\ \A c \in characters : Cardinality(Neighbours(rels, c.id)) = 2

\* C26 (as claimed): in the output of get_relationship_network every
\* relationship touched appears exactly once: no two entries of the relationships
\* list are for the same row, or for the two rows of the same relationship.
C26_EachEdgeOnce ==
    \A p \in Procs :
        FinishedNetwork(p) =>
           \A i, j \in DOMAIN call[p].relationships :
              LET e == call[p].relationships[i]
                  f == call[p].relationships[j]
              IN  (/\ {e.from_character_id, e.to_character_id}
                          = {f.from_character_id, f.to_character_id}
                   /\ e.type = f.type)
                  => i = j

\* C28 (as claimed): the network returned is closed: every from_character_id and
\* to_character_id of its relationships list is a key of its characters map.
C28_NetworkClosed ==
    \A p \in Procs :
        FinishedNetwork(p) =>
           \A i \in DOMAIN call[p].relationships :
              /\ call[p].relationships[i].from_character_id \in DOMAIN call[p].characters
              /\ call[p].relationships[i].to_character_id \in DOMAIN call[p].characters

\* C29: the depth bound of get_relationship_network.  Only characters at
\* breadth-first distance at most max_depth - 1 from the start are expanded;
\* every edge of the output has a depth between 1 and max_depth, equal to the
\* distance of its from-character plus 1; with max_depth = 0 nothing is expanded,
\* and a character that cannot be reached is never expanded.
C29_DepthBound ==
    \A p \in Procs :
        InNetwork(p) =>
           LET start == call[p].id
               max_depth == call[p].max_depth
           IN  /\ \A i \in DOMAIN call[p].expanded :
                     /\ max_depth >= 1
                     /\ call[p].expanded[i] \in Within(rels, start, max_depth - 1)
               /\ \A i \in DOMAIN call[p].relationships :
                     LET e == call[p].relationships[i]
                     IN  /\ e.depth >= 1 /\ e.depth <= max_depth
                         /\ e.depth = Distance(rels, start, e.from_character_id) + 1
               /\ max_depth = 0 => call[p].expanded = <<>> /\ call[p].relationships = <<>>

\* A traversal with max_depth = 2 has returned with edges of depth 2, leaving a
\* character at distance 2 unexpanded.
C29_Witness ==
    /\ FinishedNetwork("p1")
    /\ call["p1"].max_depth = 2
    /\ \E i \in DOMAIN call["p1"].relationships : call["p1"].relationships[i].depth = 2
    /\ \E c \in characters :
          /\ c.id \in Within(rels, call["p1"].id, 2) \ Within(rels, call["p1"].id, 1)
          /\ \A i \in DOMAIN call["p1"].expanded : call["p1"].expanded[i] # c.id

\* C27: lenient propagation.  An update_relationship that reaches its commit on
\* a row with is_mutual = true whose mirror row (B,A,type) is missing succeeds,
\* writes the updates to the targeted row, and creates no row.
C27_LenientPropagation ==
    [][\A p \in Procs :
          (/\ pc[p] = "update_commit" /\ pc'[p] = "ready"
           /\ \E r \in rels : /\ r.id = call[p].row.id
                              /\ r.is_mutual
                              /\ ReverseOf(rels, r) = {})
          => /\ result'[p] = "ok"
             /\ {r.id : r \in rels'} = {r.id : r \in rels}
             /\ \E r \in rels' :
                   /\ r.id = call[p].row.id
                   /\ \A k \in (DOMAIN call[p].arg \cap DOMAIN r) \ ProtectedKeys :
                         r[k] = call[p].arg[k]]_vars

\* A row of a mutual pair was given another type, which left it without a
\* mirror; an update of its strength then succeeded and left the former mirror
\* as it was.
C27_Witness ==
    /\ call["p1"].op = "update" /\ result["p1"] = "ok" /\ pc["p1"] = "ready"
    /\ \E r \in rels :
          /\ r.is_mutual /\ r.relationship_type = "friendship"
          /\ r.strength = Some(7)
          /\ ReverseOf(rels, r) = {}
          /\ \E m \in rels :
                /\ m.character_a_id = r.character_b_id
                /\ m.character_b_id = r.character_a_id
                /\ m.strength = Some(5)
    /\ Cardinality(rels) = 2

\* C30: whatever update_character calls carrying personality_traits were made on
\* a character, one after another or overlapping, the character has at most one
\* Personality row, and each such call that succeeds leaves that row (created if
\* it was absent) with the call's dominant_traits, the empty list when
\* personality_traits has no dominant_traits key.
C30_PersonalityUpsert ==
    /\ [](\A c \in KnownCharacterIds :
             Cardinality({r \in personalities : r.character_id = c}) <= 1)
    /\ [][\A p \in Procs :
             (/\ pc[p] = "update_character_commit" /\ pc'[p] = "ready"
              /\ "personality_traits" \in DOMAIN call[p].arg
              /\ result'[p] = "ok")
             => {r.dominant_traits : r \in {x \in personalities' : x.character_id = call[p].id}}
                   = {dominant_traits_of(call[p].arg.personality_traits[1])}]_vars

=============================================================================
